---- MODULE Spec2Model ----
(***************************************************************************)
(* A model of the command classes of UnrealMCPServer/commands:             *)
(* BaseCommand (base_command.py) and its five dataclass subclasses         *)
(* (blueprint_commands.py).  Python objects live on a heap of dicts, so    *)
(* that aliasing between a command's params, its typed fields, the         *)
(* caller's own dicts and the results of to_dict() and copy() is explicit. *)
(* Strings are sequences of one-character strings, so that strip(),        *)
(* startswith(), endswith() and the two re.sub() passes of the type        *)
(* property are computed the way the code computes them.                   *)
(***************************************************************************)
EXTENDS Integers, Sequences, FiniteSets, TLC

VARIABLES heap, cmds, views, call, nsets, ncons

vars == <<heap, cmds, views, call, nsets, ncons>>

(***************************************************************************)
(* Bounds of the model.                                                    *)
(***************************************************************************)
MaxHeap == 8
MaxCmds == 2
MaxViews == 1
MaxSets == 1
MaxDicts == 1

(***************************************************************************)
(* Characters and strings.                                                 *)
(***************************************************************************)
UpperSeq == <<"A","B","C","D","E","F","G","H","I","J","K","L","M","N","O","P","Q","R","S","T","U","V","W","X","Y","Z">>
LowerSeq == <<"a","b","c","d","e","f","g","h","i","j","k","l","m","n","o","p","q","r","s","t","u","v","w","x","y","z">>
DigitSeq == <<"0","1","2","3","4","5","6","7","8","9">>

Range(s) == {s[i] : i \in DOMAIN s}

Upper == Range(UpperSeq)
Lower == Range(LowerSeq)
Digit == Range(DigitSeq)
Whitespace == {" "}

\* str.lower() on one character
LowerChar(c) ==
    IF c \in Upper THEN LowerSeq[CHOOSE i \in DOMAIN UpperSeq : UpperSeq[i] = c] ELSE c

\* str.lower()
StrLower(s) == [i \in DOMAIN s |-> LowerChar(s[i])]

\* str.startswith(prefix)
StartsWith(s, prefix) ==
    /\ Len(prefix) <= Len(s)
    /\ SubSeq(s, 1, Len(prefix)) = prefix

\* str.endswith(suffix)
EndsWith(s, suffix) ==
    /\ Len(suffix) <= Len(s)
    /\ SubSeq(s, Len(s) - Len(suffix) + 1, Len(s)) = suffix

\* str.strip(): leading and trailing whitespace removed
RECURSIVE LStrip(_)
LStrip(s) == IF s # <<>> /\ Head(s) \in Whitespace THEN LStrip(Tail(s)) ELSE s

RECURSIVE RStrip(_)
RStrip(s) ==
    IF s # <<>> /\ s[Len(s)] \in Whitespace THEN RStrip(SubSeq(s, 1, Len(s) - 1)) ELSE s

Strip(s) == RStrip(LStrip(s))

(***************************************************************************)
(* The classes and the names their __class__.__name__ gives.               *)
(***************************************************************************)
Base == "BaseCommand"
Create == "CreateBlueprintCommand"
AddComp == "AddComponentToBlueprintCommand"
Compile == "CompileBlueprintCommand"
SetProp == "SetBlueprintPropertyCommand"
Mesh == "SetStaticMeshPropertiesCommand"

Classes == {Base, Create, AddComp, Compile, SetProp, Mesh}

ClassName(cls) ==
    CASE cls = Base -> <<"B","a","s","e","C","o","m","m","a","n","d">>
      [] cls = Create -> <<"C","r","e","a","t","e","B","l","u","e","p","r","i","n","t","C","o","m","m","a","n","d">>
      [] cls = AddComp -> <<"A","d","d","C","o","m","p","o","n","e","n","t","T","o","B","l","u","e","p","r","i","n","t","C","o","m","m","a","n","d">>
      [] cls = Compile -> <<"C","o","m","p","i","l","e","B","l","u","e","p","r","i","n","t","C","o","m","m","a","n","d">>
      [] cls = SetProp -> <<"S","e","t","B","l","u","e","p","r","i","n","t","P","r","o","p","e","r","t","y","C","o","m","m","a","n","d">>
      [] cls = Mesh -> <<"S","e","t","S","t","a","t","i","c","M","e","s","h","P","r","o","p","e","r","t","i","e","s","C","o","m","m","a","n","d">>

CommandSuffix == <<"C","o","m","m","a","n","d">>

(***************************************************************************)
(* BaseCommand.type: the suffix removal, the two re.sub passes and lower() *)
(***************************************************************************)
\* class_name[:-7] when class_name.endswith('Command')
\* the class name taken whole: what ToDictHasTypeAndParams must tell apart
\* from StripCommandSuffix
KeepCommandSuffix(name) == name

StripCommandSuffix(name) ==
    IF EndsWith(name, CommandSuffix) THEN SubSeq(name, 1, Len(name) - 7) ELSE name

\* the end of the greedy [a-z]+ run that starts at j: the first index past it
RECURSIVE LowerRunEnd(_, _)
LowerRunEnd(s, j) ==
    IF j <= Len(s) /\ s[j] \in Lower THEN LowerRunEnd(s, j + 1) ELSE j

\* re.sub('(.)([A-Z][a-z]+)', r'\1_\2', s), scanning from index i:
\* leftmost, non-overlapping matches; the scan resumes after each match
RECURSIVE SubWordStart(_, _)
SubWordStart(s, i) ==
    IF i > Len(s) THEN <<>>
    ELSE IF i + 2 <= Len(s) /\ s[i + 1] \in Upper /\ s[i + 2] \in Lower
         THEN LET j == LowerRunEnd(s, i + 2)
              IN  <<s[i], "_">> \o SubSeq(s, i + 1, j - 1) \o SubWordStart(s, j)
         ELSE <<s[i]>> \o SubWordStart(s, i + 1)

\* re.sub('([a-z0-9])([A-Z])', r'\1_\2', s), scanning from index i
RECURSIVE SubLowerUpper(_, _)
SubLowerUpper(s, i) ==
    IF i > Len(s) THEN <<>>
    ELSE IF i + 1 <= Len(s) /\ s[i] \in (Lower \cup Digit) /\ s[i + 1] \in Upper
         THEN <<s[i], "_", s[i + 1]>> \o SubLowerUpper(s, i + 2)
         ELSE <<s[i]>> \o SubLowerUpper(s, i + 1)

SnakeCase(name) == SubLowerUpper(SubWordStart(name, 1), 1)

\* the type property of an instance of class cls
TypeOf(cls) == StrLower(SnakeCase(StripCommandSuffix(ClassName(cls))))

(***************************************************************************)
(* Python values.  A value is a record of one shape: t is its kind, s the  *)
(* characters of a str, r the heap address of a dict.  "obj" is a value    *)
(* json cannot encode (a set, bytes, ...), "nan" a non-finite float,       *)
(* "list" a list of JSON values (not a mapping), "unset" the absence of a  *)
(* keyword argument.  Values other than dicts compare by value, and so     *)
(* does the copy deepcopy makes of one.                                    *)
(***************************************************************************)
Val(t, s, r) == [t |-> t, s |-> s, r |-> r]
Null == Val("null", <<>>, 0)
Obj == Val("obj", <<>>, 0)
NaN == Val("nan", <<>>, 0)
ListV == Val("list", <<>>, 0)
Unset == Val("unset", <<>>, 0)
Str(s) == Val("str", s, 0)
RefV(r) == Val("ref", <<>>, r)

IsDict(v) == v.t = "ref"

(***************************************************************************)
(* dict: the insertion-ordered sequence of its items.                      *)
(***************************************************************************)
Item(k, v) == [k |-> k, v |-> v]

Keys(d) == {d[i].k : i \in DOMAIN d}

HasKey(d, k) == k \in Keys(d)

\* d[k], for a key of d
Get(d, k) == d[CHOOSE i \in DOMAIN d : d[i].k = k].v

\* d[k] = v: an existing key keeps its place, a new key is appended
DictSet(d, k, v) ==
    IF HasKey(d, k)
    THEN [i \in DOMAIN d |-> IF d[i].k = k THEN Item(k, v) ELSE d[i]]
    ELSE Append(d, Item(k, v))

\* d.update(items), items in their order
RECURSIVE DictUpdate(_, _)
DictUpdate(d, items) ==
    IF items = <<>> THEN d
    ELSE DictUpdate(DictSet(d, Head(items).k, Head(items).v), Tail(items))

\* the heap h with the dict at address r replaced by d
Store(h, r, d) == [h EXCEPT ![r] = d]

\* the dicts a value leads to: itself when it is a dict, and every dict
\* reachable through the values of those
RefsOf(d) == {d[i].v.r : i \in {j \in DOMAIN d : IsDict(d[j].v)}}

RECURSIVE ReachFrom(_, _)
ReachFrom(h, seen) ==
    LET more == seen \cup UNION {RefsOf(h[r]) : r \in seen}
    IN  IF more = seen THEN seen ELSE ReachFrom(h, more)

Reach(h, v) == IF IsDict(v) THEN ReachFrom(h, {v.r}) ELSE {}

(***************************************************************************)
(* json.dumps(value) with the default arguments: "ok", or the exception    *)
(* the encoder raises first.  Items are encoded in order; a dict met again *)
(* while it is being encoded is a circular reference (ValueError); a value *)
(* of no JSON type is a TypeError; NaN is written out (allow_nan=True).    *)
(***************************************************************************)
RECURSIVE Encode(_, _, _)
RECURSIVE EncodeItems(_, _, _, _)
Encode(h, v, markers) ==
    CASE v.t = "obj" -> "TypeError"
      [] v.t = "ref" ->
            IF h[v.r] = <<>> THEN "ok"
            ELSE IF v.r \in markers THEN "Circular"
            ELSE EncodeItems(h, h[v.r], 1, markers \cup {v.r})
      [] OTHER -> "ok"

EncodeItems(h, d, i, markers) ==
    IF i > Len(d) THEN "ok"
    ELSE LET res == Encode(h, d[i].v, markers)
         IN  IF res = "ok" THEN EncodeItems(h, d, i + 1, markers) ELSE res

JsonDumps(h, v) == Encode(h, v, {})


(***************************************************************************)
(* The dataclass fields of each class, after params, in declaration order, *)
(* and their defaults.                                                     *)
(***************************************************************************)
Fields(cls) ==
    CASE cls = Base -> <<>>
      [] cls = Create -> <<"name", "parent_class">>
      [] cls = AddComp -> <<"blueprint_name", "component_type", "component_name">>
      [] cls = Compile -> <<"blueprint_name">>
      [] cls = SetProp -> <<"blueprint_name", "property_name", "property_value", "property_type">>
      [] cls = Mesh -> <<"blueprint_name", "component_name", "mesh_path", "location", "rotation", "scale">>

FieldSet(cls) == Range(Fields(cls))

DefaultParentClass == <<"/","S","c","r","i","p","t","/","E","n","g","i","n","e",".","A","c","t","o","r">>

Default(cls, f) ==
    CASE f = "parent_class" -> Str(DefaultParentClass)
      [] f \in {"property_value", "location", "rotation", "scale"} -> Null
      [] OTHER -> Str(<<>>)

(***************************************************************************)
(* Exceptions and warnings.  variant is the class a message names (""      *)
(* when it names none), cause the text of the message.                     *)
(***************************************************************************)
Exc(type, variant, cause) == [type |-> type, variant |-> variant, cause |-> cause]
NoExc == Exc("none", "", "")

Raised(e) == e.type # "none"

\* a command object: its class, its params attribute, its typed fields
Cmd(cls, params, f) == [cls |-> cls, params |-> params, f |-> f]

(***************************************************************************)
(* BaseCommand.validate and its two helpers.                               *)
(***************************************************************************)
\* _check_for_circular_references: only ValueError is caught, so the
\* encoder's TypeError leaves the method as it is
CircularCheckOn(res) ==
    CASE res = "Circular" ->
            Exc("ValueError", "", "Circular reference detected in command parameters")
      [] res = "TypeError" -> Exc("TypeError", "", "Object is not JSON serializable")
      [] OTHER -> NoExc

CheckForCircularReferences(h, cmd) == CircularCheckOn(JsonDumps(h, cmd.params))

\* _validate_json_serializable
ValidateJsonSerializable(h, cmd) ==
    IF JsonDumps(h, cmd.params) = "TypeError"
    THEN Exc("ValueError", "", "Command parameters are not JSON serializable")
    ELSE NoExc

\* the rest of validate once _check_for_circular_references has ended with circ
SerializableAfter(h, cmd, circ) ==
    IF Raised(circ) THEN circ ELSE ValidateJsonSerializable(h, cmd)

BaseValidate(h, cmd) ==
    IF ~IsDict(cmd.params)
    THEN Exc("ValueError", "", "params must be a dictionary")
    ELSE SerializableAfter(h, cmd, CheckForCircularReferences(h, cmd))

(***************************************************************************)
(* The validate overrides.  Each returns the exception raised (or none)    *)
(* and the warnings passed to warnings.warn on the way.                    *)
(***************************************************************************)
Outcome(exc, warns) == [exc |-> exc, warns |-> warns]

ScriptPrefix == <<"/","S","c","r","i","p","t","/">>

ValidComponentSuffixes ==
    { <<"C","o","m","p","o","n","e","n","t">>, <<"A","c","t","o","r">>, <<"O","b","j","e","c","t">> }

\* a validate that treats the format finding as an error: what
\* SuspiciousSucceedsOnGoodParams must tell apart from CreateValidate
CreateValidateStrict(h, cmd) ==
    IF Strip(cmd.f["name"].s) = <<>>
    THEN Outcome(Exc("ValueError", "", "name cannot be empty"), <<>>)
    ELSE IF ~StartsWith(cmd.f["parent_class"].s, ScriptPrefix)
    THEN Outcome(Exc("ValueError", "", "parent_class may not be a valid Unreal class path"), <<>>)
    ELSE Outcome(BaseValidate(h, cmd), <<>>)

CreateValidate(h, cmd) ==
    IF Strip(cmd.f["name"].s) = <<>>
    THEN Outcome(Exc("ValueError", "", "name cannot be empty"), <<>>)
    ELSE IF Strip(cmd.f["parent_class"].s) = <<>>
    THEN Outcome(Exc("ValueError", "", "parent_class cannot be empty"), <<>>)
    ELSE LET warns == IF ~StartsWith(cmd.f["parent_class"].s, ScriptPrefix)
                      THEN <<"parent_class may not be a valid Unreal class path">>
                      ELSE <<>>
         IN  Outcome(BaseValidate(h, cmd), warns)

AddCompValidate(h, cmd) ==
    IF Strip(cmd.f["blueprint_name"].s) = <<>>
    THEN Outcome(Exc("ValueError", "", "blueprint_name cannot be empty"), <<>>)
    ELSE IF Strip(cmd.f["component_type"].s) = <<>>
    THEN Outcome(Exc("ValueError", "", "component_type cannot be empty"), <<>>)
    ELSE LET warns == IF ~\E suf \in ValidComponentSuffixes :
                                EndsWith(cmd.f["component_type"].s, suf)
                      THEN <<"component_type may not be a valid Unreal component type">>
                      ELSE <<>>
         IN  Outcome(BaseValidate(h, cmd), warns)

\* self.validate(): the method of the instance's class
Validate(h, cmd) ==
    CASE cmd.cls = Create -> CreateValidate(h, cmd)
      [] cmd.cls = AddComp -> AddCompValidate(h, cmd)
      [] OTHER -> Outcome(BaseValidate(h, cmd), <<>>)

(***************************************************************************)
(* __post_init__.  A frame is the heap, the object under construction,     *)
(* the exception that ended the call (or none) and the warnings emitted.   *)
(***************************************************************************)
Frame(h, cmd, exc, warns) == [heap |-> h, cmd |-> cmd, exc |-> exc, warns |-> warns]

\* BaseCommand.__post_init__
\* the except clause: a ValueError of validate is raised again with the
\* name of the class in front; any other exception passes as it is
Reraise(h, cmd, out) ==
    Frame(h, cmd,
          IF out.exc.type = "ValueError"
          THEN Exc("ValueError", cmd.cls, out.exc.cause)
          ELSE out.exc,
          out.warns)

Validated(h, cmd) == Reraise(h, cmd, Validate(h, cmd))

BasePostInit(h, cmd) ==
    Validated(IF IsDict(cmd.params) THEN h ELSE Append(h, <<>>),
              IF IsDict(cmd.params) THEN cmd ELSE [cmd EXCEPT !.params = RefV(Len(h) + 1)])

\* self.params.update({...}); a params that is no dict has no update method
ParamsUpdate(h, cmd, items) ==
    IF IsDict(cmd.params)
    THEN Frame(Store(h, cmd.params.r, DictUpdate(h[cmd.params.r], items)), cmd, NoExc, <<>>)
    ELSE Frame(h, cmd, Exc("AttributeError", "", "object has no attribute 'update'"), <<>>)

\* the items a class copies from its fields into params
FieldItems(cmd, names) == [i \in DOMAIN names |-> Item(names[i], cmd.f[names[i]])]

RECURSIVE SelectItems(_, _)
SelectItems(cmd, names) ==
    IF names = <<>> THEN <<>>
    ELSE IF cmd.f[Head(names)] # Null
         THEN <<Item(Head(names), cmd.f[Head(names)])>> \o SelectItems(cmd, Tail(names))
         ELSE SelectItems(cmd, Tail(names))

\* CreateBlueprintCommand and AddComponentToBlueprintCommand:
\* params.update first, then super().__post_init__()
InitAfter(up) == IF Raised(up.exc) THEN up ELSE BasePostInit(up.heap, up.cmd)

UpdateThenInit(h, cmd) == InitAfter(ParamsUpdate(h, cmd, FieldItems(cmd, Fields(cmd.cls))))

\* the items SetStaticMeshPropertiesCommand builds in params_dict
\* every field copied, None or not: what MeshAddsOnlyProvided must tell
\* apart from MeshItems
MeshItemsWithNone(cmd) == FieldItems(cmd, Fields(Mesh))

MeshItems(cmd) ==
    FieldItems(cmd, <<"blueprint_name", "component_name", "mesh_path">>)
        \o SelectItems(cmd, <<"location", "rotation", "scale">>)

\* CompileBlueprintCommand, SetBlueprintPropertyCommand and
\* SetStaticMeshPropertiesCommand: super().__post_init__() first, then params.update
UpdateItems(cmd) ==
    IF cmd.cls = Mesh THEN MeshItems(cmd) ELSE FieldItems(cmd, Fields(cmd.cls))

UpdateAfter(init) ==
    IF Raised(init.exc) THEN init
    ELSE [ParamsUpdate(init.heap, init.cmd, UpdateItems(init.cmd)) EXCEPT !.warns = init.warns]

InitThenUpdate(h, cmd) == UpdateAfter(BasePostInit(h, cmd))

PostInit(h, cmd) ==
    CASE cmd.cls = Base -> BasePostInit(h, cmd)
      [] cmd.cls \in {Create, AddComp} -> UpdateThenInit(h, cmd)
      [] OTHER -> InitThenUpdate(h, cmd)

(***************************************************************************)
(* The dataclass-generated __init__: each field takes its argument or its  *)
(* default (params: a fresh dict from default_factory), then __post_init__ *)
(* runs.  args maps "params" and every field name to a value or Unset.     *)
(***************************************************************************)
New(h, cls, args) ==
    PostInit(IF args["params"] = Unset THEN Append(h, <<>>) ELSE h,
             Cmd(cls,
                 IF args["params"] = Unset THEN RefV(Len(h) + 1) ELSE args["params"],
                 [n \in FieldSet(cls) |-> IF args[n] = Unset THEN Default(cls, n) ELSE args[n]]))


(***************************************************************************)
(* copy.deepcopy(v): every dict reachable from v is copied once (the memo  *)
(* keeps sharing and cycles inside one call); other values are copied by   *)
(* value.  The copies take the next free addresses.                        *)
(***************************************************************************)
\* the address of the copy of dict r, R being the dicts to copy
NewAddr(h, R, r) == Len(h) + Cardinality({x \in R : x <= r})

CopyVal(h, R, x) == IF IsDict(x) THEN RefV(NewAddr(h, R, x.r)) ELSE x

CopyDict(h, R, d) == [i \in DOMAIN d |-> Item(d[i].k, CopyVal(h, R, d[i].v))]

DeepCopyOf(h, v, R) ==
    [heap |-> [j \in 1..(Len(h) + Cardinality(R)) |->
                  IF j <= Len(h) THEN h[j]
                  ELSE CopyDict(h, R, h[CHOOSE r \in R : NewAddr(h, R, r) = j])],
     val |-> RefV(NewAddr(h, R, v.r))]

\* copy.copy: a new dict with the same values: what
\* CopyIsEqualAndIndependent must tell apart from DeepCopy
ShallowCopy(h, v) ==
    IF ~IsDict(v) THEN [heap |-> h, val |-> v]
    ELSE [heap |-> Append(h, h[v.r]), val |-> RefV(Len(h) + 1)]

DeepCopy(h, v) ==
    IF ~IsDict(v) THEN [heap |-> h, val |-> v] ELSE DeepCopyOf(h, v, Reach(h, v))

\* deepcopy of each value of vals in turn, each call with a memo of its own
RECURSIVE DeepCopyEach(_, _, _)
RECURSIVE DeepCopyNext(_, _, _)
DeepCopyEach(h, vals, done) ==
    IF vals = <<>> THEN [heap |-> h, vals |-> done]
    ELSE DeepCopyNext(DeepCopy(h, Head(vals)), Tail(vals), done)

DeepCopyNext(c, rest, done) == DeepCopyEach(c.heap, rest, Append(done, c.val))

(***************************************************************************)
(* BaseCommand.copy: the public attributes are deep-copied (params first,  *)
(* then the fields), a new instance is built from the copied fields, and   *)
(* its params attribute is then replaced by the copied params.  The dict   *)
(* the new instance was built with is dropped with that assignment.        *)
(***************************************************************************)
\* field_values: the deep copies of params and of each field, in that order
FieldValues(h, cmd) ==
    DeepCopyEach(h, <<cmd.params>> \o [i \in DOMAIN Fields(cmd.cls) |-> cmd.f[Fields(cmd.cls)[i]]],
                 <<>>)

\* the keyword arguments of the new instance: every copied field but params
CopyArgs(cls, vals) ==
    [n \in {"params"} \cup FieldSet(cls) |->
        IF n = "params" THEN Unset
        ELSE vals[1 + CHOOSE i \in DOMAIN Fields(cls) : Fields(cls)[i] = n]]

\* new_cmd.params = field_values.get('params', {})
AssignParams(made, params) ==
    IF Raised(made.exc) THEN made
    ELSE Frame(SubSeq(made.heap, 1, Len(made.heap) - 1),
               [made.cmd EXCEPT !.params = params],
               NoExc, made.warns)

Rebuild(cls, copied) ==
    AssignParams(New(copied.heap, cls, CopyArgs(cls, copied.vals)), copied.vals[1])

CopyOf(h, cmd) == Rebuild(cmd.cls, FieldValues(h, cmd))

(***************************************************************************)
(* BaseCommand.to_dict and to_json.                                        *)
(***************************************************************************)
\* to_dict(): the returned mapping, and the heap with self.params.copy()
\* (a new dict holding the same items) at the next free address
ToDictOf(h, cmd) ==
    [heap |-> Append(h, h[cmd.params.r]),
     d |-> <<Item("type", Str(TypeOf(cmd.cls))), Item("params", RefV(Len(h) + 1))>>]

\* json.dumps(self.to_dict()): "ok" or the exception of the encoder
DumpsMapping(td) == JsonDumps(Append(td.heap, td.d), RefV(Len(td.heap) + 1))

ToJsonOf(h, cmd) == DumpsMapping(ToDictOf(h, cmd))

(***************************************************************************)
(* The state: heap is the dicts alive, by address; cmds the command        *)
(* objects the caller holds; views the mappings to_dict() returned, each   *)
(* with the command it came from; call the last operation with its         *)
(* arguments and outcome; nsets the number of item assignments and         *)
(* deletions the caller has made, ncons the number of constructor calls    *)
(* (those of copy() included, whether they raised or not).                 *)
(***************************************************************************)
NoArgs == [params |-> Unset]

CallRec(op, cls, args, exc, warns, cmd, src, ref) ==
    [op |-> op, cls |-> cls, args |-> args, exc |-> exc, warns |-> warns,
     cmd |-> cmd, src |-> src, ref |-> ref]

Init ==
    /\ heap = <<>>
    /\ cmds = <<>>
    /\ views = <<>>
    /\ call = CallRec("init", "", NoArgs, NoExc, <<>>, 0, 0, 0)
    /\ nsets = 0
    /\ ncons = 0

Addrs == DOMAIN heap

\* what the caller passes as an initial parameter container
ParamArgs == {Unset, ListV} \cup {RefV(r) : r \in Addrs}

\* a valid name, a whitespace-only string, strings for the format checks
NameBP == <<"B","P">>
Blank == <<" ">>
NameFoo == <<"F","o","o">>
NameWidget == <<"W","i","d","g","e","t">>
NameMeshComponent == <<"M","e","s","h","C","o","m","p","o","n","e","n","t">>

StrArgs == {Unset, Str(Blank), Str(NameBP)}
OptStrArgs == {Unset, Str(NameBP)}
ParentClassArgs == {Unset, Str(Blank), Str(NameFoo)}
ComponentTypeArgs == {Unset, Str(NameWidget), Str(NameMeshComponent)}
AnyArgs == {Unset, Null, Obj, NaN} \cup {RefV(r) : r \in Addrs}
MappingArgs == {Unset} \cup {RefV(r) : r \in Addrs}

\* the keys and values the caller stores into dicts; the dicts it nests
\* are among the first MaxDicts
ClientKeys == {"location"}
ClientVals == {Null, Obj} \cup {RefV(r) : r \in {a \in Addrs : a <= MaxDicts}}

\* the caller writes a dict literal {}
NewDict ==
    /\ Len(heap) < MaxDicts
    /\ heap' = Append(heap, <<>>)
    /\ call' = CallRec("new_dict", "", NoArgs, NoExc, <<>>, 0, 0, Len(heap) + 1)
    /\ UNCHANGED <<cmds, views, nsets, ncons>>

\* d[k] = v on a dict the caller can reach
SetItem(r, k, v) ==
    /\ nsets < MaxSets
    /\ heap' = Store(heap, r, DictSet(heap[r], k, v))
    /\ nsets' = nsets + 1
    /\ call' = CallRec("setitem", "", NoArgs, NoExc, <<>>, 0, 0, r)
    /\ UNCHANGED <<cmds, views, ncons>>

\* del d[k]
DelItem(r, k) ==
    /\ nsets < MaxSets
    /\ HasKey(heap[r], k)
    /\ heap' = Store(heap, r, SelectSeq(heap[r], LAMBDA it : it.k # k))
    /\ nsets' = nsets + 1
    /\ call' = CallRec("delitem", "", NoArgs, NoExc, <<>>, 0, 0, r)
    /\ UNCHANGED <<cmds, views, ncons>>

\* cls(**args): on an exception no object comes into being, and what the
\* call allocated is gone; what it wrote into the caller's dicts stays
Construct(cls, args) ==
    \E made \in {New(heap, cls, args)} :
        /\ ncons < MaxCmds
        /\ Len(made.heap) <= MaxHeap
        /\ ncons' = ncons + 1
        /\ IF Raised(made.exc)
           THEN /\ heap' = SubSeq(made.heap, 1, Len(heap))
                /\ cmds' = cmds
                /\ call' = CallRec("construct", cls, args, made.exc, made.warns, 0, 0, 0)
           ELSE /\ heap' = made.heap
                /\ cmds' = Append(cmds, made.cmd)
                /\ call' = CallRec("construct", cls, args, NoExc, made.warns, Len(cmds) + 1, 0, 0)
        /\ UNCHANGED <<views, nsets>>

\* The constructions of Spec: one constructor call per behaviour, with
\* arguments drawn from the sets above.
ConstructBase ==
    /\ ncons = 0
    /\ \E p \in ParamArgs : Construct(Base, [params |-> p])

ConstructCreate ==
    /\ ncons = 0
    /\ \E p \in ParamArgs, n \in StrArgs, pc \in ParentClassArgs :
            Construct(Create, [params |-> p, name |-> n, parent_class |-> pc])

ConstructAddComp ==
    /\ ncons = 0
    /\ \E p \in ParamArgs, bn \in OptStrArgs, ct \in ComponentTypeArgs, cn \in OptStrArgs :
            Construct(AddComp, [params |-> p, blueprint_name |-> bn, component_type |-> ct,
                                component_name |-> cn])

ConstructCompile ==
    /\ ncons = 0
    /\ \E p \in ParamArgs, bn \in StrArgs :
            Construct(Compile, [params |-> p, blueprint_name |-> bn])

ConstructSetProp ==
    /\ ncons = 0
    /\ \E p \in ParamArgs, bn \in OptStrArgs, pv \in AnyArgs, pt \in OptStrArgs :
            Construct(SetProp, [params |-> p, blueprint_name |-> bn,
                                property_name |-> Str(NameBP), property_value |-> pv,
                                property_type |-> pt])

\* the caller passes one mapping m for each optional field of the subset S
ConstructMesh ==
    /\ ncons = 0
    /\ \E p \in ParamArgs, bn \in OptStrArgs, m \in MappingArgs,
          S \in SUBSET {"location", "rotation", "scale"} :
            /\ m = Unset => S = {}
            /\ m # Unset => S # {}
            /\ Construct(Mesh, [params |-> p, blueprint_name |-> bn,
                                component_name |-> Str(NameBP), mesh_path |-> Str(NameBP),
                                location |-> IF "location" \in S THEN m ELSE Unset,
                                rotation |-> IF "rotation" \in S THEN m ELSE Unset,
                                scale |-> IF "scale" \in S THEN m ELSE Unset])

\* The constructions of SpecAlias and SpecCopy: arguments that every class
\* accepts; what varies is the dicts they are given.
ValidArgs(cls, p, m) ==
    CASE cls = Base -> [params |-> p]
      [] cls = Create -> [params |-> p, name |-> Str(NameBP), parent_class |-> Str(NameFoo)]
      [] cls = AddComp -> [params |-> p, blueprint_name |-> Str(NameBP),
                           component_type |-> Str(NameWidget), component_name |-> Unset]
      [] cls = Compile -> [params |-> p, blueprint_name |-> Str(NameBP)]
      [] cls = SetProp -> [params |-> p, blueprint_name |-> Str(NameBP),
                           property_name |-> Str(NameBP), property_value |-> m,
                           property_type |-> Unset]
      [] cls = Mesh -> [params |-> p, blueprint_name |-> Str(NameBP),
                        component_name |-> Str(NameBP), mesh_path |-> Str(NameBP),
                        location |-> m, rotation |-> Unset, scale |-> Unset]

ConstructValid ==
    \E cls \in Classes, p \in ParamArgs \ {ListV}, m \in MappingArgs :
        /\ cls \notin {SetProp, Mesh} => m = Unset
        /\ Construct(cls, ValidArgs(cls, p, m))

\* cmds[c].to_dict(), the result kept by the caller
ToDict(c) ==
    \E td \in {ToDictOf(heap, cmds[c])} :
        /\ Len(views) < MaxViews
        /\ Len(heap) < MaxHeap
        /\ heap' = td.heap
        /\ views' = Append(views, [cmd |-> c, d |-> td.d])
        /\ call' = CallRec("to_dict", cmds[c].cls, NoArgs, NoExc, <<>>, c, 0, Len(heap) + 1)
        /\ UNCHANGED <<cmds, nsets, ncons>>

\* cmds[c].to_json(); the mapping it builds on the way is not kept
DumpsExc(res) ==
    CASE res = "TypeError" -> Exc("TypeError", "", "Object is not JSON serializable")
      [] res = "Circular" -> Exc("ValueError", "", "Circular reference detected")
      [] OTHER -> NoExc

ToJson(c) ==
    /\ call' = CallRec("to_json", cmds[c].cls, NoArgs, DumpsExc(ToJsonOf(heap, cmds[c])),
                       <<>>, c, 0, 0)
    /\ UNCHANGED <<heap, cmds, views, nsets, ncons>>

\* cmds[c].copy(), the result kept by the caller
Copy(c) ==
    \E made \in {CopyOf(heap, cmds[c])} :
        /\ ncons < MaxCmds
        /\ Len(made.heap) <= MaxHeap
        /\ ncons' = ncons + 1
        /\ IF Raised(made.exc)
           THEN /\ UNCHANGED <<heap, cmds>>
                /\ call' = CallRec("copy", cmds[c].cls, NoArgs, made.exc, made.warns, 0, c, 0)
           ELSE /\ heap' = made.heap
                /\ cmds' = Append(cmds, made.cmd)
                /\ call' = CallRec("copy", cmds[c].cls, NoArgs, NoExc, made.warns,
                                   Len(cmds) + 1, c, 0)
        /\ UNCHANGED <<views, nsets>>

\* one constructor call by the caller; later ones are those of copy()
ConstructFirst == ncons = 0 /\ ConstructValid

Mutate ==
    \/ \E r \in Addrs, k \in ClientKeys, v \in ClientVals : SetItem(r, k, v)
    \/ \E r \in Addrs, k \in ClientKeys : DelItem(r, k)

Next ==
    \/ NewDict
    \/ Mutate
    \/ ConstructBase
    \/ ConstructCreate
    \/ ConstructAddComp
    \/ ConstructCompile
    \/ ConstructSetProp
    \/ ConstructMesh
    \/ \E c \in DOMAIN cmds : ToDict(c)
    \/ \E c \in DOMAIN cmds : ToJson(c)
    \/ \E c \in DOMAIN cmds : Copy(c)

Spec == Init /\ [][Next]_vars

NextAlias ==
    \/ NewDict
    \/ Mutate
    \/ ConstructValid
    \/ \E c \in DOMAIN cmds : ToDict(c)

SpecAlias == Init /\ [][NextAlias]_vars

\* the caller fills its dicts before it constructs
Prepare ==
    /\ ncons = 0
    /\ \E r \in Addrs, k \in ClientKeys, v \in ClientVals : SetItem(r, k, v)

NextNew ==
    \/ NewDict
    \/ Prepare
    \/ ConstructBase
    \/ ConstructCreate
    \/ ConstructAddComp
    \/ ConstructCompile
    \/ ConstructSetProp
    \/ ConstructMesh
    \/ \E c \in DOMAIN cmds : ToDict(c)
    \/ \E c \in DOMAIN cmds : ToJson(c)

SpecNew == Init /\ [][NextNew]_vars

NextCopy ==
    \/ NewDict
    \/ Mutate
    \/ ConstructFirst
    \/ \E c \in DOMAIN cmds : Copy(c)

SpecCopy == Init /\ [][NextCopy]_vars

(***************************************************************************)
(* What the properties below speak of.                                     *)
(***************************************************************************)
IsMutation(c) == c.op \in {"setitem", "delitem"}

Succeeded(c) == c.op \in {"construct", "copy"} /\ ~Raised(c.exc) /\ c.cmd # 0

\* the value a field of the constructor call c takes: the argument or the default
FieldVal(c, f) == IF c.args[f] = Unset THEN Default(c.cls, f) ELSE c.args[f]

IsBlank(v) == Strip(v.s) = <<>>

\* the dicts that make up the params of a command, and those of the whole
\* command (params and typed fields)
ParamsReach(h, cmd) == Reach(h, cmd.params)

CmdReach(h, cmd) == UNION {Reach(h, v) : v \in {cmd.params} \cup Range(cmd.f)}

\* the step leaves every dict of R as it was
SameOn(R) == \A r \in R : heap'[r] = heap[r]

\* a value as a tree, dicts compared by content as == of Python compares
\* them (key order left out), unfolded n levels deep
RECURSIVE Unfold(_, _, _)
Unfold(h, v, n) ==
    IF ~IsDict(v) THEN [t |-> v.t, s |-> v.s, d |-> <<>>]
    ELSE IF n = 0 THEN [t |-> "deeper", s |-> <<>>, d |-> <<>>]
    ELSE [t |-> "dict", s |-> <<>>,
          d |-> [k \in Keys(h[v.r]) |-> Unfold(h, Get(h[v.r], k), n - 1)]]

\* the mapping cmd.to_dict() returns, as a tree
ToDictTree(td) == Unfold(Append(td.heap, td.d), RefV(Len(td.heap) + 1), Len(td.heap) + 2)

ToDictValue(h, cmd) == ToDictTree(ToDictOf(h, cmd))

\* the required fields of each variant
Required(cls) ==
    CASE cls = Create -> {"name", "parent_class"}
      [] cls = AddComp -> {"blueprint_name", "component_type"}
      [] cls = Compile -> {"blueprint_name"}
      [] cls = SetProp -> {"blueprint_name", "property_name"}
      [] cls = Mesh -> {"blueprint_name", "component_name", "mesh_path"}
      [] OTHER -> {}

\* the params of the constructor call c after it: those of the object it
\* made, or the caller's container when it raised
ParamsAfter(c) == IF Succeeded(c) THEN cmds[c.cmd].params ELSE c.args["params"]

\* the constructor call c gave a format check something to warn about, and
\* no required field is blank
Suspicious(c) ==
    /\ c.op = "construct"
    /\ \/ /\ c.cls = AddComp
          /\ ~IsBlank(FieldVal(c, "blueprint_name"))
          /\ ~IsBlank(FieldVal(c, "component_type"))
          /\ ~\E suf \in ValidComponentSuffixes : EndsWith(FieldVal(c, "component_type").s, suf)
       \/ /\ c.cls = Create
          /\ ~IsBlank(FieldVal(c, "name"))
          /\ ~IsBlank(FieldVal(c, "parent_class"))
          /\ ~StartsWith(FieldVal(c, "parent_class").s, ScriptPrefix)

\* params of the object the call c made holds every field under its name
Populated(c) ==
    \A f \in FieldSet(c.cls) :
        /\ HasKey(heap[cmds[c.cmd].params.r], f)
        /\ Get(heap[cmds[c.cmd].params.r], f) = FieldVal(c, f)

\* the value of "type" for each class
ExpectedType(cls) ==
    CASE cls = Base -> <<"b","a","s","e">>
      [] cls = Create -> <<"c","r","e","a","t","e","_","b","l","u","e","p","r","i","n","t">>
      [] cls = AddComp -> <<"a","d","d","_","c","o","m","p","o","n","e","n","t","_","t","o","_","b","l","u","e","p","r","i","n","t">>
      [] cls = Compile -> <<"c","o","m","p","i","l","e","_","b","l","u","e","p","r","i","n","t">>
      [] cls = SetProp -> <<"s","e","t","_","b","l","u","e","p","r","i","n","t","_","p","r","o","p","e","r","t","y">>
      [] cls = Mesh -> <<"s","e","t","_","s","t","a","t","i","c","_","m","e","s","h","_","p","r","o","p","e","r","t","i","e","s">>

\* the optional mapping fields of SetStaticMeshPropertiesCommand
MeshOptionalKeys == {"location", "rotation", "scale"}

\* before the step, v was a dict with key f
HadKey(v, f) == IsDict(v) /\ HasKey(heap[v.r], f)

\* the optional fields of the two classes that copy every field
OptionalOf(cls) ==
    CASE cls = AddComp -> {"component_name"}
      [] cls = SetProp -> {"property_value", "property_type"}
      [] OTHER -> {}

\* before the step, v was no argument at all or a dict json can encode
EncodableInitial(v) == v = Unset \/ (IsDict(v) /\ JsonDumps(heap, v) = "ok")

(***************************************************************************)
(* C1.  A mutation of the mapping to_dict() returned, or of a dict         *)
(* reachable from it, leaves params of the command as they were.           *)
(***************************************************************************)
ToDictIsolated ==
    [][(/\ call.op = "to_dict"
        /\ IsMutation(call')
        /\ call'.ref \in Reach(heap, RefV(call.ref)))
          => SameOn(ParamsReach(heap, cmds[call.cmd]))]_vars

(***************************************************************************)
(* C2.  When construction succeeds the params are JSON-encodable and       *)
(* to_json() succeeds.                                                     *)
(***************************************************************************)
ConstructedIsEncodable ==
    (call.op = "construct" /\ Succeeded(call))
        => /\ JsonDumps(heap, cmds[call.cmd].params) = "ok"
           /\ ToJsonOf(heap, cmds[call.cmd]) = "ok"

(***************************************************************************)
(* C3.  Construction with a required field blank fails with an error that  *)
(* names a blank required field, and makes no object.                      *)
(***************************************************************************)
BlankRequiredFails ==
    (call.op = "construct" /\ \E f \in Required(call.cls) : IsBlank(FieldVal(call, f)))
        => /\ Raised(call.exc)
           /\ call.cmd = 0
           /\ \E f \in Required(call.cls) :
                /\ IsBlank(FieldVal(call, f))
                /\ call.exc.cause = f \o " cannot be empty"

(***************************************************************************)
(* C4.  Construction fails with an error that names the variant and the    *)
(* cause when the parameter container is no mapping, when the parameters   *)
(* hold a value json cannot encode, and when they are circular; the last   *)
(* two under labels of their own.                                          *)
(***************************************************************************)
BadParamsFailLabelled ==
    call.op = "construct" =>
        /\ (call.args["params"] # Unset /\ ~IsDict(call.args["params"]))
              => /\ Raised(call.exc)
                 /\ call.exc.variant = call.cls
                 /\ call.exc.cause = "params must be a dictionary"
        /\ (IsDict(ParamsAfter(call)) /\ JsonDumps(heap, ParamsAfter(call)) = "TypeError")
              => /\ Raised(call.exc)
                 /\ call.exc.variant = call.cls
                 /\ call.exc.cause = "Command parameters are not JSON serializable"
        /\ (IsDict(ParamsAfter(call)) /\ JsonDumps(heap, ParamsAfter(call)) = "Circular")
              => /\ Raised(call.exc)
                 /\ call.exc.variant = call.cls
                 /\ call.exc.cause = "Circular reference detected in command parameters"

(***************************************************************************)
(* C5.  copy() returns a command of the same class whose to_dict() equals  *)
(* that of the original, and the two share no dict: a mutation of a dict   *)
(* of the copy (of its params or of its fields) that follows leaves every  *)
(* dict of the original as it was, and the other way round.                *)
(***************************************************************************)
CopyIsEqualAndIndependent ==
    [][/\ call'.op = "copy"
            => /\ Succeeded(call')
               /\ cmds'[call'.cmd].cls = cmds'[call'.src].cls
               /\ ToDictValue(heap', cmds'[call'.cmd]) = ToDictValue(heap', cmds'[call'.src])
               /\ CmdReach(heap', cmds'[call'.cmd]) \cap CmdReach(heap', cmds'[call'.src]) = {}
       /\ (call.op = "copy" /\ Succeeded(call) /\ IsMutation(call'))
            => /\ call'.ref \in CmdReach(heap, cmds[call.cmd])
                    => SameOn(CmdReach(heap, cmds[call.src]))
               /\ call'.ref \in CmdReach(heap, cmds[call.src])
                    => SameOn(CmdReach(heap, cmds[call.cmd]))
               /\ cmds' = cmds]_vars

\* a Mesh command with a location dict whose dicts the caller changed has
\* been copied
CopiedAfterMutation ==
    /\ call.op = "copy"
    /\ Succeeded(call)
    /\ cmds[call.src].cls = Mesh
    /\ IsDict(cmds[call.src].f["location"])
    /\ nsets > 0
    /\ heap[cmds[call.src].f["location"].r] # <<>>

(***************************************************************************)
(* C6.  to_dict() returns a mapping of exactly the keys "type" and         *)
(* "params", and "type" is the name of the class without its Command       *)
(* suffix, in snake case, whatever the fields and params of the instance.  *)
(***************************************************************************)
ToDictHasTypeAndParams ==
    \A i \in DOMAIN views :
        /\ Len(views[i].d) = 2
        /\ Keys(views[i].d) = {"type", "params"}
        /\ Get(views[i].d, "type") = Str(ExpectedType(cmds[views[i].cmd].cls))
        /\ IsDict(Get(views[i].d, "params"))

\* to_dict() has been called on an AddComponentToBlueprintCommand, the
\* caller having filled a dict of its own
ToDictOfAddComp ==
    \E i \in DOMAIN views :
        /\ cmds[views[i].cmd].cls = AddComp
        /\ nsets > 0

(***************************************************************************)
(* C7.  As stated: SetStaticMeshPropertiesCommand built without location   *)
(* (rotation, scale) has no such key in params, and built with it has the  *)
(* key with the mapping given.                                             *)
(***************************************************************************)
MeshOmitsUnprovided ==
    (call.op = "construct" /\ call.cls = Mesh /\ Succeeded(call))
        => \A f \in MeshOptionalKeys :
              IF call.args[f] = Unset
              THEN ~HasKey(heap[cmds[call.cmd].params.r], f)
              ELSE /\ HasKey(heap[cmds[call.cmd].params.r], f)
                   /\ Get(heap[cmds[call.cmd].params.r], f) = call.args[f]

(***************************************************************************)
(* C7, amended.  Construction without location (rotation, scale) adds no   *)
(* such key: params has the key after it only when the initial parameter   *)
(* mapping of the caller had it, with the value it had; built with the     *)
(* field, params has the key with the mapping given.                       *)
(***************************************************************************)
MeshAddsOnlyProvided ==
    [][(call'.op = "construct" /\ call'.cls = Mesh /\ Succeeded(call'))
          => \A f \in MeshOptionalKeys :
                IF call'.args[f] = Unset
                THEN /\ HasKey(heap'[cmds'[call'.cmd].params.r], f) <=> HadKey(call'.args["params"], f)
                     /\ HadKey(call'.args["params"], f)
                          => Get(heap'[cmds'[call'.cmd].params.r], f)
                                = Get(heap[call'.args["params"].r], f)
                ELSE /\ HasKey(heap'[cmds'[call'.cmd].params.r], f)
                     /\ Get(heap'[cmds'[call'.cmd].params.r], f) = call'.args[f]]_vars

\* a Mesh command built on a mapping of the caller, with rotation and
\* without location: rotation is a key of params, location is none
MeshBuiltWithoutLocation ==
    /\ call.op = "construct"
    /\ call.cls = Mesh
    /\ Succeeded(call)
    /\ IsDict(call.args["params"])
    /\ call.args["location"] = Unset
    /\ call.args["rotation"] # Unset
    /\ ~HasKey(heap[cmds[call.cmd].params.r], "location")
    /\ HasKey(heap[cmds[call.cmd].params.r], "rotation")

(***************************************************************************)
(* C8.  AddComponentToBlueprintCommand and SetBlueprintPropertyCommand     *)
(* have the key of an optional field in params exactly when the caller     *)
(* gave the field.                                                         *)
(***************************************************************************)
OptionalDroppedWhenUnset ==
    (call.op = "construct" /\ Succeeded(call))
        => \A f \in OptionalOf(call.cls) :
              HasKey(heap[cmds[call.cmd].params.r], f) <=> call.args[f] # Unset

CommandsShareNothing ==
    [][IsMutation(call')
          => \A a, b \in DOMAIN cmds :
                (a # b /\ call'.ref = cmds[a].params.r)
                    => SameOn(ParamsReach(heap, cmds[b]))]_vars

====
